---- MODULE Spec2Model ----
(***************************************************************************)
(* Model of plugins.py, the plug-in commands of the pictool image          *)
(* processor: display, dered, mono, flip, transpose and rotate acting on   *)
(* an image buffer, a table (list of rows) of references to mutable RGB    *)
(* pixel objects.                                                          *)
(*                                                                         *)
(* The buffer is `image', a sequence of rows of pixel identities; the      *)
(* pixel objects live in `pixels', a heap from identity to the four        *)
(* channels.  Every action is one complete call of one command.           *)
(***************************************************************************)
EXTENDS Integers, Sequences, FiniteSets, TLC

VARIABLES
    image,        \* the image buffer: sequence of rows of pixel identities
    pixels,       \* the pixel objects: identity -> [red, green, blue, alpha]
    ret,          \* outcome of the last call: what it returned, or the exception
    last,         \* the last call: [op, flag]
    before,       \* [image, pixels] as they were when the last call began
    prev,         \* the call before the last: [op, flag, ret, image at its start]
    streak,       \* how many times in a row the last call has been repeated (1..4)
    streakStart,  \* the image as it was when that streak began
    orig,         \* the image as first handed to the commands
    nswap         \* parity of the number of completed transpose and rotate calls

vars == <<image, pixels, ret, last, before, prev, streak, streakStart, orig, nswap>>

(***************************************************************************)
(* Bounds of the model.                                                    *)
(***************************************************************************)
MaxRows == 2
MaxCols == 3
MaxChannel == 3

(***************************************************************************)
(* IEEE-754 binary64 arithmetic, as Python's float performs it, for the    *)
(* non-negative normal values mono computes with.  A float is a record     *)
(* [m, s] standing for m * 2^(-s), m a natural number of at most 53        *)
(* significant bits kept as a little-endian sequence of limbs.             *)
(***************************************************************************)
LimbBits == 12
Base == 2 ^ LimbBits
Precision == 53

Digit(a, i) == IF 1 <= i /\ i <= Len(a) THEN a[i] ELSE 0

RECURSIVE Carry(_, _)
Carry(s, c) ==
    IF s = <<>>
    THEN IF c = 0 THEN <<>> ELSE <<c % Base>> \o Carry(<<>>, c \div Base)
    ELSE <<(Head(s) + c) % Base>> \o Carry(Tail(s), (Head(s) + c) \div Base)

FromInt(n) == Carry(<<n>>, 0)

AddBig(a, b) ==
    Carry([i \in 1..(IF Len(a) >= Len(b) THEN Len(a) ELSE Len(b)) |-> Digit(a, i) + Digit(b, i)], 0)

RECURSIVE Convolve(_, _, _, _)
Convolve(a, b, k, i) ==
    IF i > Len(a) THEN 0
    ELSE a[i] * Digit(b, k + 1 - i) + Convolve(a, b, k, i + 1)

MulBig(a, b) ==
    Carry([k \in 1..(Len(a) + Len(b)) |->
              Convolve(a, b, k, 1)], 0)

Pow2(q) == [i \in 1..((q \div LimbBits) + 1) |->
               IF i = (q \div LimbBits) + 1 THEN 2 ^ (q % LimbBits) ELSE 0]

Bit(a, i) == (Digit(a, (i \div LimbBits) + 1) \div (2 ^ (i % LimbBits))) % 2

\* index of the most significant non-zero limb, 0 if there is none
RECURSIVE TopLimb(_, _)
TopLimb(a, i) == IF i = 0 THEN 0 ELSE IF a[i] # 0 THEN i ELSE TopLimb(a, i - 1)

\* number of bits of a limb
RECURSIVE LimbLen(_)
LimbLen(d) == IF d = 0 THEN 0 ELSE 1 + LimbLen(d \div 2)

BitLen(a) ==
    LET t == TopLimb(a, Len(a))
    IN  IF t = 0 THEN 0 ELSE LimbBits * (t - 1) + LimbLen(a[t])

\* a with its q low bits cleared
ClearLow(a, q) ==
    [i \in 1..Len(a) |->
        IF LimbBits * i <= q THEN 0
        ELSE IF LimbBits * (i - 1) >= q THEN a[i]
        ELSE a[i] - (a[i] % (2 ^ (q - LimbBits * (i - 1))))]

\* round to nearest, ties to even, keeping Precision significant bits
RoundBig(a) ==
    LET q == BitLen(a) - Precision
    IN  IF q <= 0 THEN a
        ELSE LET up == /\ Bit(a, q - 1) = 1
                       /\ \/ Bit(a, q) = 1
                          \/ \E i \in 0..(q - 2) : Bit(a, i) = 1
             IN  IF up THEN AddBig(ClearLow(a, q), Pow2(q)) ELSE ClearLow(a, q)

FloatOfInt(n) == [m |-> FromInt(n), s |-> 0]

FMul(x, y) == [m |-> RoundBig(MulBig(x.m, y.m)), s |-> x.s + y.s]

FAdd(x, y) ==
    LET s == IF x.s >= y.s THEN x.s ELSE y.s
    IN  [m |-> RoundBig(AddBig(MulBig(x.m, Pow2(s - x.s)), MulBig(y.m, Pow2(s - y.s)))),
         s |-> s]

\* int(x) for x >= 0: truncation
RECURSIVE BitsFrom(_, _, _)
BitsFrom(a, k, n) == IF n = 0 THEN 0 ELSE Bit(a, k) + 2 * BitsFrom(a, k + 1, n - 1)

IntOfFloat(x) ==
    LET n == BitLen(x.m) - x.s IN IF n <= 0 THEN 0 ELSE BitsFrom(x.m, x.s, n)

\* The float literals of mono: the doubles nearest to 0.3, 0.6, 0.1 and 0.4.
\* 0.3 = 0x13333333333333 * 2^-54      0.6 = 0x13333333333333 * 2^-53
\* 0.1 = 0x1999999999999A * 2^-56      0.4 = 0x1999999999999A * 2^-54
F03 == [m |-> <<819, 819, 819, 819, 19>>, s |-> 54]
F06 == [m |-> <<819, 819, 819, 819, 19>>, s |-> 53]
F01 == [m |-> <<2458, 2457, 2457, 2457, 25>>, s |-> 56]
F04 == [m |-> <<2458, 2457, 2457, 2457, 25>>, s |-> 54]

\* brightness = pixel.red * 0.3 + pixel.green * 0.6 + pixel.blue * 0.1
Brightness(p) ==
    FAdd(FAdd(FMul(FloatOfInt(p.red), F03), FMul(FloatOfInt(p.green), F06)),
         FMul(FloatOfInt(p.blue), F01))

(***************************************************************************)
(* The values a caller may pass for a flag parameter (sepia, vertical,     *)
(* right): the two bools, and the int 0 and None, which are no bools.      *)
(***************************************************************************)
Flags == {"False", "True", "0", "None"}

\* the assert left out
AssertSkipped(x) == TRUE
\* type(x) == bool
AssertBool(x) == x \in {"False", "True"}

\* Python's x == False and x == True (the int 0 equals False)
PyEq(x, b) ==
    \/ x = b
    \/ x = "0" /\ b = "False"

(***************************************************************************)
(* The image buffer.                                                       *)
(***************************************************************************)
\* The colours of the pixels a buffer is built from: red, green and blue within
\* 0..MaxChannel, alpha anywhere in 0..255.
Palette == << [red |-> 1, green |-> 1, blue |-> 1, alpha |-> 255],
              [red |-> 0, green |-> 3, blue |-> 2, alpha |-> 7] >>

Height(img) == Len(img)
Width(img) == Len(img[1])

\* the cells in the order the nested loops over range(height), range(width) visit them
Cells(img) ==
    [k \in 1..(Height(img) * Width(img)) |->
        img[((k - 1) \div Width(img)) + 1][((k - 1) % Width(img)) + 1]]

\* a reversal that copies s[n+1-i] into s[i] in place, without a temporary
ReverseClobber(s) == [i \in 1..Len(s) |-> IF 2 * i <= Len(s) THEN s[Len(s) + 1 - i] ELSE s[i]]
\* list.reverse()
Reverse(s) == [i \in 1..Len(s) |-> s[Len(s) + 1 - i]]

(***************************************************************************)
(* dered                                                                   *)
(***************************************************************************)
\* the assignment made to the wrong channel
DeredWrongChannel(p) == [p EXCEPT !.green = 0]
\* pixel.red = 0
DeredPixel(p) == [p EXCEPT !.red = 0]

RECURSIVE DeredLoop(_, _)
DeredLoop(heap, cells) ==
    IF cells = <<>> THEN heap
    ELSE DeredLoop([heap EXCEPT ![Head(cells)] = DeredPixel(@)], Tail(cells))

(***************************************************************************)
(* mono                                                                    *)
(***************************************************************************)
MonoPixel(p, sepia) ==
    LET brightness == Brightness(p)
        grey == IF PyEq(sepia, "False")
                THEN [p EXCEPT !.red = IntOfFloat(brightness),
                               !.green = IntOfFloat(brightness),
                               !.blue = IntOfFloat(brightness)]
                ELSE p
    IN  IF PyEq(sepia, "True")
        THEN [grey EXCEPT !.red = IntOfFloat(brightness),
                          !.green = IntOfFloat(FMul(F06, brightness)),
                          !.blue = IntOfFloat(FMul(F04, brightness))]
        ELSE grey

\* MonoPixel tabulated once over the colours a pixel of the model can take (mono never
\* raises a channel above the largest of the three), so that it is not recomputed
\* in every state.
MonoTable ==
    [sepia \in Flags |->
        [c \in (0..MaxChannel) \X (0..MaxChannel) \X (0..MaxChannel) |->
            MonoPixel([red |-> c[1], green |-> c[2], blue |-> c[3], alpha |-> 0], sepia)]
        @@ <<>>]

MonoPixelAt(p, sepia) ==
    LET q == MonoTable[sepia][<<p.red, p.green, p.blue>>]
    IN  [p EXCEPT !.red = q.red, !.green = q.green, !.blue = q.blue]

RECURSIVE MonoLoop(_, _, _)
MonoLoop(heap, cells, sepia) ==
    IF cells = <<>> THEN heap
    ELSE MonoLoop([heap EXCEPT ![Head(cells)] = MonoPixelAt(@, sepia)], Tail(cells), sepia)

(***************************************************************************)
(* flip, transpose, rotate                                                 *)
(***************************************************************************)
\* horizontal: every row reversed; vertical: the list of rows reversed
FlipImage(img, vertical) ==
    LET horizontal == IF PyEq(vertical, "False")
                      THEN [r \in 1..Height(img) |-> Reverse(img[r])]
                      ELSE img
    IN  IF PyEq(vertical, "True") THEN Reverse(horizontal) ELSE horizontal

\* a transpose that reads image[0][co] in place of image[ro][co]
TransposeDupRow(img) ==
    [co \in 1..Width(img) |-> [ro \in 1..Height(img) |-> img[1][co]]]
\* result[co][ro] = image[ro][co]; the buffer is then cleared and refilled from result
TransposeImage(img) ==
    [co \in 1..Width(img) |-> [ro \in 1..Height(img) |-> img[ro][co]]]

\* a rotate with the two orders exchanged
RotateSwapped(img, right) ==
    LET left == IF PyEq(right, "False") THEN TransposeImage(Reverse(img)) ELSE img
    IN  IF PyEq(right, "True") THEN Reverse(TransposeImage(left)) ELSE left
\* a rotate that turns left whatever the flag
RotateIgnoringFlag(img, right) == Reverse(TransposeImage(img))
\* left: transpose, then image.reverse(); right: image.reverse(), then transpose
RotateImage(img, right) ==
    LET left == IF PyEq(right, "False") THEN Reverse(TransposeImage(img)) ELSE img
    IN  IF PyEq(right, "True") THEN TransposeImage(Reverse(left)) ELSE left

(***************************************************************************)
(* The state machine: a buffer is built, then commands are called on it.   *)
(***************************************************************************)
\* the longest run of one repeated call that is kept track of
MaxStreak == 4

Init ==
    \E R \in 1..MaxRows, C \in 1..MaxCols :
        /\ image = [r \in 1..R |-> [c \in 1..C |-> (r - 1) * C + c]]
        /\ pixels = [id \in 1..(R * C) |-> Palette[((id - 1) % Len(Palette)) + 1]]
        /\ ret = "None"
        /\ last = [op |-> "none", flag |-> "-"]
        /\ before = [image |-> image, pixels |-> pixels]
        /\ prev = [op |-> "none", flag |-> "-", ret |-> "None", image |-> image]
        /\ streak = 0
        /\ streakStart = image
        /\ orig = image
        /\ nswap = 0

\* One call: its effect on the buffer and the pixels, its outcome, and the record of it.
Call(op, flag, img, heap, outcome, swapped) ==
    /\ image' = img
    /\ pixels' = heap
    /\ ret' = outcome
    /\ last' = [op |-> op, flag |-> flag]
    /\ before' = [image |-> image, pixels |-> pixels]
    /\ prev' = [op |-> last.op, flag |-> last.flag, ret |-> ret, image |-> before.image]
    /\ IF last = [op |-> op, flag |-> flag] /\ streak < MaxStreak
       THEN streak' = streak + 1 /\ streakStart' = streakStart
       ELSE streak' = 1 /\ streakStart' = image
    /\ orig' = orig
    /\ nswap' = IF swapped THEN 1 - nswap ELSE nswap

Raise(op, flag) == Call(op, flag, image, pixels, "AssertionError", FALSE)

\* display reads the buffer, prints the pixels (standard output is not part of the
\* state) and ends in a bare return, which yields None
Display == Call("display", "-", image, pixels, "None", FALSE)

Dered == Call("dered", "-", image, DeredLoop(pixels, Cells(image)), "True", FALSE)

Mono(sepia) ==
    IF ~AssertBool(sepia) THEN Raise("mono", sepia)
    ELSE Call("mono", sepia, image, MonoLoop(pixels, Cells(image), sepia), "True", FALSE)

Flip(vertical) ==
    IF ~AssertBool(vertical) THEN Raise("flip", vertical)
    ELSE Call("flip", vertical, FlipImage(image, vertical), pixels, "True", FALSE)

Transpose == Call("transpose", "-", TransposeImage(image), pixels, "True", TRUE)

Rotate(right) ==
    IF ~AssertBool(right) THEN Raise("rotate", right)
    ELSE Call("rotate", right, RotateImage(image, right), pixels, "True", TRUE)

Next ==
    \/ Display
    \/ Dered
    \/ \E sepia \in Flags : Mono(sepia)
    \/ \E vertical \in Flags : Flip(vertical)
    \/ Transpose
    \/ \E right \in Flags : Rotate(right)

Spec == Init /\ [][Next]_vars

(***************************************************************************)
(* Properties.                                                             *)
(***************************************************************************)
Bools == {"False", "True"}

Rectangular(img) ==
    /\ Len(img) >= 1
    /\ Len(img[1]) >= 1
    /\ \A i \in 1..Len(img) : Len(img[i]) = Len(img[1])

\* how many cells of img hold the pixel id
Occurrences(img, id) ==
    Cardinality({c \in (1..Len(img)) \X (1..Len(img[1])) : img[c[1]][c[2]] = id})

\* C1: after transpose of an R x C image the buffer is C x R, the pixel at (i, j) is
\* the pixel that was at (j, i), and the call returned True.
TransposeContract ==
    last.op = "transpose" =>
        /\ ret = "True"
        /\ Len(image) = Width(before.image)
        /\ \A i \in 1..Len(image) : Len(image[i]) = Height(before.image)
        /\ \A i \in 1..Width(before.image), j \in 1..Height(before.image) :
               image[i][j] = before.image[j][i]

TransposeWitness ==
    /\ last.op = "transpose"
    /\ Height(before.image) = 2
    /\ Width(before.image) = 3
    /\ Len(image) = 3

\* C2: rotate(image, right=False) of an R x C image gives the transpose with its rows
\* reversed: the buffer is C x R and the pixel at (i, j) is the pixel that was at
\* (j, C-1-i), counting from 0 (here, counting from 1, at (j, C+1-i)).
RotateLeftContract ==
    last = [op |-> "rotate", flag |-> "False"] =>
        /\ image = Reverse(TransposeImage(before.image))
        /\ Len(image) = Width(before.image)
        /\ \A i \in 1..Len(image) : Len(image[i]) = Height(before.image)
        /\ \A i \in 1..Width(before.image), j \in 1..Height(before.image) :
               image[i][j] = before.image[j][Width(before.image) + 1 - i]

RotateLeftWitness ==
    /\ last = [op |-> "rotate", flag |-> "False"]
    /\ ret = "True"
    /\ Height(before.image) = 2
    /\ Width(before.image) = 3

\* C3: rotate right immediately followed by rotate left restores the buffer: the same
\* shape and the same pixel at every position.
RotateRightThenLeft ==
    (/\ last = [op |-> "rotate", flag |-> "False"]
     /\ prev.op = "rotate"
     /\ prev.flag = "True") => image = prev.image

RotateRightThenLeftWitness ==
    /\ last = [op |-> "rotate", flag |-> "False"]
    /\ prev.op = "rotate"
    /\ prev.flag = "True"
    /\ Height(prev.image) # Width(prev.image)
    /\ before.image # prev.image

\* C4: four rotations in a row in the same direction, left or right, restore the
\* buffer: the same shape and the same pixel at every position.
FourRotations ==
    (last.op = "rotate" /\ last.flag \in Bools /\ streak = 4) => image = streakStart

FourRotationsWitness ==
    /\ last = [op |-> "rotate", flag |-> "True"]
    /\ streak = 4
    /\ Height(streakStart) # Width(streakStart)
    /\ before.image # streakStart

\* C5: a flip leaves the shape as it was, and two flips in a row in the same mode
\* (horizontal twice, or vertical twice) restore the pixel arrangement.
FlipTwice ==
    (last.op = "flip" /\ last.flag \in Bools) =>
        /\ Len(image) = Len(before.image)
        /\ \A i \in 1..Len(image) : Len(image[i]) = Len(before.image[i])
        /\ (prev.op = "flip" /\ prev.flag = last.flag) => image = prev.image

FlipTwiceWitness ==
    /\ last = [op |-> "flip", flag |-> "False"]
    /\ prev.op = "flip"
    /\ prev.flag = "False"
    /\ Width(image) = 3
    /\ before.image # image

\* C6: after mono(image, sepia=False) red, green and blue of every pixel all equal
\* floor(0.3*r + 0.6*g + 0.1*b) of the channels the pixel had before the call, and
\* alpha is as it was.  (floor(0.3*r + 0.6*g + 0.1*b) = (3*r + 6*g + b) div 10.)
MonoGreyExact ==
    last = [op |-> "mono", flag |-> "False"] =>
        \A id \in DOMAIN pixels :
            pixels[id] =
                [red   |-> (3 * before.pixels[id].red + 6 * before.pixels[id].green
                              + before.pixels[id].blue) \div 10,
                 green |-> (3 * before.pixels[id].red + 6 * before.pixels[id].green
                              + before.pixels[id].blue) \div 10,
                 blue  |-> (3 * before.pixels[id].red + 6 * before.pixels[id].green
                              + before.pixels[id].blue) \div 10,
                 alpha |-> before.pixels[id].alpha]

\* C7: after dered every pixel's red is 0, its green, blue and alpha are as before,
\* the shape and the position of every pixel are as before, and the call returned True.
DeredContract ==
    last.op = "dered" =>
        /\ ret = "True"
        /\ image = before.image
        /\ DOMAIN pixels = DOMAIN before.pixels
        /\ \A id \in DOMAIN pixels :
               /\ pixels[id].red = 0
               /\ pixels[id].green = before.pixels[id].green
               /\ pixels[id].blue = before.pixels[id].blue
               /\ pixels[id].alpha = before.pixels[id].alpha

DeredWitness ==
    /\ last.op = "dered"
    /\ \E id \in DOMAIN pixels : before.pixels[id].red # 0
    /\ \E id \in DOMAIN pixels : before.pixels[id].green # 0

\* C8: display reports False and leaves the buffer as it was: the same shape, the
\* same pixel at every position, the same channel values.
DisplayReportsFalse ==
    last.op = "display" =>
        /\ ret = "False"
        /\ image = before.image
        /\ pixels = before.pixels

\* C9: mono, flip or rotate called with a flag that is no bool fails with the
\* precondition violation instead of returning, and the buffer and its pixels are
\* exactly as they were before the call.
NonBoolFlagRejected ==
    (last.op \in {"mono", "flip", "rotate"} /\ last.flag \notin Bools) =>
        /\ ret = "AssertionError"
        /\ image = before.image
        /\ pixels = before.pixels

NonBoolFlagWitness ==
    /\ last = [op |-> "flip", flag |-> "0"]
    /\ prev.op = "rotate"
    /\ prev.flag = "True"
    /\ Width(image) = 3

\* C10: whatever calls have been made, the buffer is non-empty and rectangular, its
\* shape is that of the original, with rows and columns exchanged exactly when an odd
\* number of transpose and rotate calls have completed, and every original pixel
\* occurs in exactly one cell.
ShapeAndPixelsPreserved ==
    /\ Rectangular(image)
    /\ nswap = 0 => (Height(image) = Height(orig) /\ Width(image) = Width(orig))
    /\ nswap = 1 => (Height(image) = Width(orig) /\ Width(image) = Height(orig))
    /\ \A id \in 1..(Height(orig) * Width(orig)) : Occurrences(image, id) = 1

ShapeAndPixelsWitness ==
    /\ nswap = 1
    /\ Height(orig) # Width(orig)
    /\ Height(image) = Width(orig)
    /\ last = [op |-> "flip", flag |-> "True"]
    /\ prev.op = "rotate"
    /\ prev.flag = "False"
    /\ streak = 1

====
